---- MODULE Spec2Model ----
(***************************************************************************)
(* Session controller of the speaking-coach browser client                 *)
(* (frontend/src/app/page.tsx, component Home, lines 308-487).             *)
(*                                                                         *)
(* The component keeps four pieces of React state and three refs.  Every   *)
(* call of startRecording creates its own closure: a microphone stream, a  *)
(* WebSocket and the recorders built by that socket's message handler.     *)
(* The closures are indexed here by the call number s (a "session").       *)
(* All handlers run to completion on the browser's single event loop, so   *)
(* each action below is one task of that loop.                             *)
(***************************************************************************)
EXTENDS Integers, Sequences, FiniteSets, TLC

\* ------------------------------------------------------------------ bounds
\* number of startRecording calls explored
MaxSessions == 2
\* number of MediaRecorder objects explored (all sessions together)
MaxRecorders == 2
\* timeslice blobs delivered to an OPEN socket are explored until a session
\* has counted this many capture callbacks
MaxChunks == 1
\* length of the inline notice queue explored
MaxFeedback == 1
\* length of the notice queue explored where the clock runs
MaxTimedFeedback == 2
\* the last second of the clock explored
MaxTime == 9
\* the delay of the notice timeout (5000 ms), in seconds
FeedbackDelay == 5

Sessions == 1..MaxSessions
Recorders == 1..MaxRecorders

\* ------------------------------------------------------------- vocabulary
Null == "<null>"

\* Identifiers a message can carry in its session_id field.  The handler
\* accepts whatever the server sends, on any connection: the same id can
\* arrive on two connections, and two ids on one.
SessionIds == {"a1", "a2"}

\* JavaScript truthiness of the value held by sessionIdRef / data.session_id:
\* null and the empty string are falsy.
Truthy(v) == v # Null /\ v # ""

MsgIdle == "Click \"Start Recording\" to begin."
MsgGranted == "Microphone access granted. Connecting to server..."
MsgConnected == "Connected. Waiting for session ID..."
MsgRecording == "Session started. Recording..."
MsgStopped == "Recording stopped. Uploading audio..."
MsgUploaded == "Upload complete. Preparing analysis..."
MsgNoSession == "Could not get session ID. Please try again."
MsgConnError == "Connection error. Please try again."
MsgNoMic == "Could not access microphone. Please check permissions and try again."
MsgAnalyzing == "Analyzing your speech..."
MsgComplete == "Analysis complete!"
MsgFetchFailed == "Failed to get analysis. Please try again."

\* What response.json() can yield for an ok response; the code stores it
\* unchecked, whatever id was asked for.  Of a body only the properties the
\* report view reads are kept: transcript, vocal_delivery with its two
\* series pitch_over_time and pace_over_time (written here beside it), and
\* content (with its counts and suggestions).  NoReport is the value null:
\* the initial stored report, and also the body null.  EmptyObject is the
\* body {}: it stands for every truthy body that is no report.
Undefined == "<undefined>"
NoReport == [transcript |-> Null, vocal_delivery |-> Null, pitch_over_time |-> Null,
             pace_over_time |-> Null, content |-> Null]
EmptyObject == [transcript |-> Undefined, vocal_delivery |-> Undefined,
                pitch_over_time |-> Undefined, pace_over_time |-> Undefined,
                content |-> Undefined]
Transcripts == {"hello"}
\* a series the service may leave out
OptionalSeries == {Undefined, "series"}
\* The reports of the service: transcript, vocal_delivery and content are
\* always there, the two series may be missing (here both or neither).
Reports ==
    {[transcript |-> t, vocal_delivery |-> "measured", pitch_over_time |-> series,
      pace_over_time |-> series, content |-> "scored"] :
        t \in Transcripts, series \in OptionalSeries}
Bodies == Reports \cup {NoReport, EmptyObject}

\* AnalysisReport reads report.vocal_delivery.pitch_over_time.map,
\* report.vocal_delivery.pace_over_time.map and the properties of
\* report.content, none of them guarded: it renders a body that has them
\* all and throws a TypeError on any other.
Renders(report) ==
    /\ report.vocal_delivery \notin {Null, Undefined}
    /\ report.pitch_over_time \notin {Null, Undefined}
    /\ report.pace_over_time \notin {Null, Undefined}
    /\ report.content \notin {Null, Undefined}

\* What fetchState records of the body of an ok response.
FetchOutcome(body) ==
    IF body = NoReport THEN "okNull" ELSE IF body \in Reports THEN "ok" ELSE "okEmpty"

\* Inbound socket payloads.  parses is FALSE for text the handler cannot
\* read as an object (JSON.parse rejects it, or it is the JSON value null):
\* the handler throws before any effect.  Otherwise session_id and type are
\* the fields of the object (Null when absent), words the field words, and
\* wordsIsArray tells whether words is an array (words.join throws if not).
WordLists == {<<"um", "uh">>}
SessionIdFields == SessionIds \cup {"", Null}
Inbound ==
    {[parses |-> FALSE, session_id |-> Null, type |-> Null, words |-> <<>>,
      wordsIsArray |-> FALSE]}
    \cup {[parses |-> TRUE, session_id |-> i, type |-> Null, words |-> <<>>,
           wordsIsArray |-> FALSE] : i \in SessionIdFields}
    \cup {[parses |-> TRUE, session_id |-> i, type |-> "FILLER_WORD", words |-> w,
           wordsIsArray |-> TRUE] : i \in SessionIdFields, w \in WordLists}
    \cup {[parses |-> TRUE, session_id |-> Null, type |-> "FILLER_WORD",
           words |-> <<>>, wordsIsArray |-> FALSE]}

\* Array.prototype.join(', ') over the words of a notice.
RECURSIVE Join(_)
Join(ws) ==
    IF Len(ws) = 0 THEN <<>>
    ELSE IF Len(ws) = 1 THEN <<ws[1]>>
    ELSE <<ws[1], ", ">> \o Join(Tail(ws))
FeedbackText(ws) == <<"Filler word detected: \"">> \o Join(ws) \o <<"\"">>

\* ------------------------------------------------------------------ state
VARIABLES
    recordingState,   \* useState RecordingState
    statusMessage,    \* useState string
    analysisReport,   \* useState report (NoReport models null)
    realtimeFeedback, \* useState FeedbackMessage[]
    socketRef,        \* session whose socket the ref holds, 0 for null
    mediaRecorderRef, \* recorder the ref holds, 0 for null
    sessionIdRef,     \* the id the ref holds, Null for null
    nStarted,         \* startRecording calls made so far
    perm,             \* per session: state of its getUserMedia promise
    tracks,           \* per session: its stream's tracks
    readyState,       \* per session: its socket's readyState
    recOwner,         \* per recorder: session whose handler built it, 0 if none
    recState,         \* per recorder: MediaRecorder state
    fetchState,       \* per session: the fetch its close handler started
    fetchId,          \* per session: the id that fetch asked for
    assignedId,       \* history of the session_id fields handled on the session's
                      \* socket: Null if none yet, "" if only empty ones, else
                      \* the last non-empty one
    errored,          \* history: the session's socket raised an error event
    fired,            \* history: capture callbacks run while the socket was OPEN
    firedData,        \* history: those of them that carried data
    sent,             \* history: chunks handed to socket.send
    now,              \* the wall clock (Date.now()), in seconds
    timerDue          \* the due times of the notice effect's pending timeout:
                      \* empty when none is pending, else one time

react == <<recordingState, statusMessage, analysisReport, realtimeFeedback>>
refs == <<socketRef, mediaRecorderRef, sessionIdRef>>
media == <<perm, tracks, recOwner, recState>>
net == <<readyState, fetchState, fetchId>>
hist == <<assignedId, errored, fired, firedData, sent>>
timing == <<now, timerDue>>
vars == <<react, refs, nStarted, media, net, hist, timing>>

Init ==
    /\ recordingState = "Idle"
    /\ statusMessage = MsgIdle
    /\ analysisReport = NoReport
    /\ realtimeFeedback = <<>>
    /\ socketRef = 0
    /\ mediaRecorderRef = 0
    /\ sessionIdRef = Null
    /\ nStarted = 0
    /\ perm = [s \in Sessions |-> "none"]
    /\ tracks = [s \in Sessions |-> "none"]
    /\ readyState = [s \in Sessions |-> "none"]
    /\ recOwner = [r \in Recorders |-> 0]
    /\ recState = [r \in Recorders |-> "none"]
    /\ fetchState = [s \in Sessions |-> "none"]
    /\ fetchId = [s \in Sessions |-> Null]
    /\ assignedId = [s \in Sessions |-> Null]
    /\ errored = [s \in Sessions |-> FALSE]
    /\ fired = [s \in Sessions |-> 0]
    /\ firedData = [s \in Sessions |-> 0]
    /\ sent = [s \in Sessions |-> 0]
    /\ now = 0
    /\ timerDue = {}


\* ------------------------------------------------------------ what is shown
\* Home returns the report view (with its "Start New Session" button) in
\* place of the controls when the state is Complete and the stored report is
\* truthy.  If AnalysisReport then throws while rendering, React unmounts
\* the tree: nothing is shown any more, the cleanup of the notice effect
\* clears its timeout, and from then on the state setters of Home have no
\* effect (the refs, sockets, recorders and fetches live on).
TakesReportBranch == recordingState = "Complete" /\ analysisReport # NoReport
Unmounted == TakesReportBranch /\ ~Renders(analysisReport)
ShowsReport == TakesReportBranch /\ Renders(analysisReport)
ShowsStart == ~TakesReportBranch /\ recordingState = "Idle"
ShowsStop == ~TakesReportBranch /\ recordingState = "Recording"

\* a state setter of Home called with val, cur being the state it sets
SetState(cur, val) == IF Unmounted THEN cur ELSE val

\* ---------------------------------------------------------------- helpers
\* What a handler has decided so far about the React state it writes and
\* about the fetch it starts; Commit turns the final value into the step.
Ui == [recordingState |-> recordingState, statusMessage |-> statusMessage,
       fetch |-> Null]

\* fetchAnalysis up to its await: two state writes, then the request leaves.
fetchAnalysisBegin(u, id) ==
    [u EXCEPT !.recordingState = "Analyzing", !.statusMessage = MsgAnalyzing,
              !.fetch = id]

\* socket.onerror
onerror(u) ==
    [u EXCEPT !.statusMessage = MsgConnError, !.recordingState = "Idle"]

\* socket.onclose
onclose(u) ==
    LET u1 == [u EXCEPT !.statusMessage = MsgUploaded]
    IN  IF Truthy(sessionIdRef)
        THEN fetchAnalysisBegin(u1, sessionIdRef)
        ELSE [u1 EXCEPT !.statusMessage = MsgNoSession, !.recordingState = "Idle"]

Commit(u, s) ==
    /\ recordingState' = SetState(recordingState, u.recordingState)
    /\ statusMessage' = SetState(statusMessage, u.statusMessage)
    /\ IF u.fetch # Null
       THEN /\ fetchState' = [fetchState EXCEPT ![s] = "pending"]
            /\ fetchId' = [fetchId EXCEPT ![s] = u.fetch]
       ELSE UNCHANGED <<fetchState, fetchId>>

\* The effect on [realtimeFeedback]: whenever the array is replaced, the
\* pending timeout is cleared, and a new one of FeedbackDelay seconds is set
\* if the new array is not empty.
FeedbackEffect(fb) == IF Len(fb) > 0 THEN {now + FeedbackDelay} ELSE {}

\* mediaRecorder.ondataavailable of a recorder of session s, for a blob of
\* the given size: the chunk is sent only if it is non-empty and the socket
\* is OPEN; otherwise nothing happens and nothing is kept.
ShouldSend_AnyReadyState(s, size) == size > 0

ShouldSend(s, size) == size > 0 /\ readyState[s] = "OPEN"

\* The callback run once for each blob a task delivers, in order; nothing
\* changes the socket's readyState between the callbacks of one task.
ondataavailable(s, blobs) ==
    LET sending == {i \in DOMAIN blobs : ShouldSend(s, blobs[i])}
        open == {i \in DOMAIN blobs : readyState[s] = "OPEN"}
        openData == {i \in DOMAIN blobs : readyState[s] = "OPEN" /\ blobs[i] > 0}
    IN  /\ sent' = [sent EXCEPT ![s] = @ + Cardinality(sending)]
        /\ fired' = [fired EXCEPT ![s] = @ + Cardinality(open)]
        /\ firedData' = [firedData EXCEPT ![s] = @ + Cardinality(openData)]

\* mediaRecorder.onstop of a recorder of session s
onstop(s) ==
    /\ readyState' = [readyState EXCEPT ![s] = IF @ = "OPEN" THEN "CLOSING" ELSE @]
    /\ tracks' = [tracks EXCEPT ![s] = "ended"]
    /\ statusMessage' = SetState(statusMessage, MsgStopped)
    /\ recordingState' = SetState(recordingState, "Stopped")

\* The blobs one stop task delivers: the last blob, preceded by a timeslice
\* blob when one was due and not yet delivered as the recorder stopped.
BlobSizes == {0, 1}
LastBlobs == {<<size>> : size \in BlobSizes}
StopBlobs == LastBlobs \cup {<<slice, size>> : slice \in BlobSizes \ {0}, size \in BlobSizes}

\* The task the user agent queues when a recorder stops: the recorder
\* delivers its blobs and then fires stop.  A timeslice blob delivered here
\* counts towards MaxChunks like one delivered by its own task.
StopTask(r, blobs) ==
    /\ blobs \in StopBlobs
    /\ (Len(blobs) > 1 /\ readyState[recOwner[r]] = "OPEN") => \A s \in Sessions : fired[s] < MaxChunks
    /\ recState' = [recState EXCEPT ![r] = "inactive"]
    /\ ondataavailable(recOwner[r], blobs)
    /\ onstop(recOwner[r])
    /\ UNCHANGED <<now, timerDue, analysisReport, realtimeFeedback, refs, nStarted, perm,
                   recOwner, fetchState, fetchId, assignedId, errored>>

\* ---------------------------------------------------------------- handlers
\* startRecording up to its await of getUserMedia
startRecording ==
    /\ analysisReport' = NoReport
    /\ realtimeFeedback' = <<>>
    /\ timerDue' = FeedbackEffect(realtimeFeedback')
    /\ sessionIdRef' = Null
    /\ nStarted' = nStarted + 1
    /\ perm' = [perm EXCEPT ![nStarted + 1] = "pending"]
    /\ UNCHANGED <<now, recordingState, statusMessage, socketRef, mediaRecorderRef,
                   tracks, recOwner, recState, net, hist>>

\* getUserMedia resolves: the rest of the try block runs
PermissionGranted(s) ==
    /\ perm[s] = "pending"
    /\ perm' = [perm EXCEPT ![s] = "granted"]
    /\ tracks' = [tracks EXCEPT ![s] = "live"]
    /\ statusMessage' = SetState(statusMessage, MsgGranted)
    /\ readyState' = [readyState EXCEPT ![s] = "CONNECTING"]
    /\ socketRef' = s
    /\ UNCHANGED <<now, timerDue, recordingState, analysisReport, realtimeFeedback,
                   mediaRecorderRef, sessionIdRef, nStarted, recOwner, recState,
                   fetchState, fetchId, hist>>

PermissionDenied_StillConnects(s) ==
    /\ perm[s] = "pending"
    /\ perm' = [perm EXCEPT ![s] = "denied"]
    /\ statusMessage' = SetState(statusMessage, MsgNoMic)
    /\ readyState' = [readyState EXCEPT ![s] = "CONNECTING"]
    /\ socketRef' = s
    /\ UNCHANGED <<now, timerDue, recordingState, analysisReport, realtimeFeedback,
                   mediaRecorderRef, sessionIdRef, nStarted, tracks, recOwner,
                   recState, fetchState, fetchId, hist>>

\* getUserMedia rejects: the catch block runs
PermissionDenied(s) ==
    /\ perm[s] = "pending"
    /\ perm' = [perm EXCEPT ![s] = "denied"]
    /\ statusMessage' = SetState(statusMessage, MsgNoMic)
    /\ UNCHANGED <<now, timerDue, recordingState, analysisReport, realtimeFeedback, refs,
                   nStarted, tracks, recOwner, recState, net, hist>>

SocketOpen_StartsRecording(s) ==
    /\ readyState[s] = "CONNECTING"
    /\ readyState' = [readyState EXCEPT ![s] = "OPEN"]
    /\ statusMessage' = SetState(statusMessage, MsgRecording)
    /\ recordingState' = SetState(recordingState, "Recording")
    /\ UNCHANGED <<now, timerDue, analysisReport, realtimeFeedback, refs,
                   nStarted, media, fetchState, fetchId, hist>>

\* socket.onopen
SocketOpen(s) ==
    /\ readyState[s] = "CONNECTING"
    /\ readyState' = [readyState EXCEPT ![s] = "OPEN"]
    /\ statusMessage' = SetState(statusMessage, MsgConnected)
    /\ UNCHANGED <<now, timerDue, recordingState, analysisReport, realtimeFeedback, refs,
                   nStarted, media, fetchState, fetchId, hist>>

FreeRecorders == {r \in Recorders : recOwner[r] = 0}

\* socket.onmessage, branch data.session_id
OnSessionId(s, id) ==
    LET r == CHOOSE x \in FreeRecorders : \A y \in FreeRecorders : x <= y
    IN  /\ sessionIdRef' = id
        /\ statusMessage' = SetState(statusMessage, MsgRecording)
        /\ recordingState' = SetState(recordingState, "Recording")
        /\ recOwner' = [recOwner EXCEPT ![r] = s]
        /\ recState' = [recState EXCEPT ![r] = "recording"]
        /\ mediaRecorderRef' = r
        /\ assignedId' = [assignedId EXCEPT ![s] = id]
        /\ UNCHANGED <<now, timerDue, analysisReport, realtimeFeedback, socketRef, nStarted,
                       perm, tracks, net, errored, fired, firedData, sent>>

addRealtimeFeedback_InStatusLine(text) ==
    /\ realtimeFeedback' = SetState(realtimeFeedback,
                                    Append(realtimeFeedback, [id |-> now, text |-> text]))
    /\ timerDue' = IF Unmounted THEN timerDue ELSE FeedbackEffect(realtimeFeedback')
    /\ statusMessage' = SetState(statusMessage, "Filler word detected")
    /\ UNCHANGED <<now, recordingState, analysisReport, refs,
                   nStarted, media, net, errored, fired, firedData, sent>>

\* addRealtimeFeedback: the notice is stamped with Date.now().  (The history
\* assignedId is left to the caller.)
addRealtimeFeedback(text) ==
    /\ realtimeFeedback' = SetState(realtimeFeedback,
                                    Append(realtimeFeedback, [id |-> now, text |-> text]))
    /\ timerDue' = IF Unmounted THEN timerDue ELSE FeedbackEffect(realtimeFeedback')
    /\ UNCHANGED <<now, recordingState, statusMessage, analysisReport, refs,
                   nStarted, media, net, errored, fired, firedData, sent>>

\* history: an empty session_id field was handled on the socket of s
SessionIdFieldSeen(s, m) ==
    assignedId' = [assignedId EXCEPT
                      ![s] = IF m.session_id = "" /\ @ = Null THEN "" ELSE @]

SocketMessage_ParseFailureIsFatal(s, m) ==
    /\ readyState[s] = "OPEN"
    /\ m \in Inbound
    /\ IF ~m.parses
       THEN /\ statusMessage' = SetState(statusMessage, MsgConnError)
            /\ recordingState' = SetState(recordingState, "Idle")
            /\ UNCHANGED <<now, timerDue, analysisReport, realtimeFeedback, refs,
                           nStarted, media, net, hist>>
       ELSE IF Truthy(m.session_id)
       THEN /\ FreeRecorders # {}
            /\ OnSessionId(s, m.session_id)
       ELSE IF m.type = "FILLER_WORD" /\ m.wordsIsArray
       THEN /\ Len(realtimeFeedback) < MaxFeedback
            /\ addRealtimeFeedback(FeedbackText(m.words))
            /\ SessionIdFieldSeen(s, m)
       ELSE /\ SessionIdFieldSeen(s, m)
            /\ UNCHANGED <<now, timerDue, react, refs, nStarted, media, net, errored,
                           fired, firedData, sent>>

\* socket.onmessage.  The browser delivers a message event only while the
\* socket is OPEN.  The handler tests data.session_id first and data.type
\* only when that is falsy; a FILLER_WORD object whose words is no array
\* makes it throw before any effect, like a payload it cannot parse.
SocketMessage(s, m) ==
    /\ readyState[s] = "OPEN"
    /\ m \in Inbound
    /\ IF ~m.parses
       THEN UNCHANGED vars
       ELSE IF Truthy(m.session_id)
       THEN /\ FreeRecorders # {}
            /\ OnSessionId(s, m.session_id)
       ELSE IF m.type = "FILLER_WORD" /\ m.wordsIsArray
       THEN /\ Len(realtimeFeedback) < MaxFeedback
            /\ addRealtimeFeedback(FeedbackText(m.words))
            /\ SessionIdFieldSeen(s, m)
       ELSE /\ SessionIdFieldSeen(s, m)
            /\ UNCHANGED <<now, timerDue, react, refs, nStarted, media, net, errored,
                           fired, firedData, sent>>

\* The callback of the notice effect's timeout: fb => fb.slice(1).  The
\* effect then runs again for the new array.  Spec abstracts from time (its
\* clock stands still) and lets a pending timeout elapse at any moment;
\* SpecTimed lets it elapse when it is due.
FeedbackTimer ==
    /\ timerDue # {}
    /\ realtimeFeedback' = Tail(realtimeFeedback)
    /\ timerDue' = FeedbackEffect(realtimeFeedback')
    /\ UNCHANGED <<now, recordingState, statusMessage, analysisReport, refs,
                   nStarted, media, net, hist>>

\* The close frame of the server arrives on an open socket: the browser
\* sets readyState to CLOSING and runs no handler.
CloseFrameReceived(s) ==
    /\ readyState[s] = "OPEN"
    /\ readyState' = [readyState EXCEPT ![s] = "CLOSING"]
    /\ UNCHANGED <<now, timerDue, react, refs, nStarted, media, fetchState, fetchId, hist>>

\* The connection ends and one task fires the close event, with no error
\* event: at the end of the closing handshake that the server's close frame
\* or the client's socket.close() began, or when an open connection is lost
\* with no close frame at all.
SocketClosed(s) ==
    /\ readyState[s] \in {"OPEN", "CLOSING"}
    /\ readyState' = [readyState EXCEPT ![s] = "CLOSED"]
    /\ Commit(onclose(Ui), s)
    /\ UNCHANGED <<now, timerDue, analysisReport, realtimeFeedback, refs, nStarted, media, hist>>

\* The connection fails: one task fires the error event and then the close
\* event.
SocketError(s) ==
    /\ readyState[s] \in {"CONNECTING", "OPEN", "CLOSING"}
    /\ readyState' = [readyState EXCEPT ![s] = "CLOSED"]
    /\ errored' = [errored EXCEPT ![s] = TRUE]
    /\ Commit(onclose(onerror(Ui)), s)
    /\ UNCHANGED <<now, timerDue, analysisReport, realtimeFeedback, refs, nStarted, media,
                   assignedId, fired, firedData, sent>>

\* fetchAnalysis after its await: the response is ok and its body, whatever
\* response.json() makes of it, is stored.  fetchState records what the body
\* was.  Home then renders: with a truthy body that is not a report the
\* report view throws and the tree is unmounted, which clears the timeout
\* of the notice effect.
FetchOk(s, report) ==
    /\ fetchState[s] = "pending"
    /\ report \in Bodies
    /\ fetchState' = [fetchState EXCEPT ![s] = FetchOutcome(report)]
    /\ analysisReport' = SetState(analysisReport, report)
    /\ recordingState' = SetState(recordingState, "Complete")
    /\ statusMessage' = SetState(statusMessage, MsgComplete)
    /\ timerDue' = IF report # NoReport /\ ~Renders(report) THEN {} ELSE timerDue
    /\ UNCHANGED <<now, realtimeFeedback, refs, nStarted, media, readyState, fetchId, hist>>

FetchFailed_StoresPartialReport(s) ==
    /\ fetchState[s] = "pending"
    /\ fetchState' = [fetchState EXCEPT ![s] = "failed"]
    /\ analysisReport' = SetState(analysisReport, EmptyObject)
    /\ statusMessage' = SetState(statusMessage, MsgFetchFailed)
    /\ recordingState' = SetState(recordingState, "Idle")
    /\ UNCHANGED <<now, timerDue, realtimeFeedback, refs, nStarted, media,
                   readyState, fetchId, hist>>

\* fetchAnalysis after its await: a non-ok response or a rejected fetch
FetchFailed(s) ==
    /\ fetchState[s] = "pending"
    /\ fetchState' = [fetchState EXCEPT ![s] = "failed"]
    /\ statusMessage' = SetState(statusMessage, MsgFetchFailed)
    /\ recordingState' = SetState(recordingState, "Idle")
    /\ UNCHANGED <<now, timerDue, analysisReport, realtimeFeedback, refs, nStarted, media,
                   readyState, fetchId, hist>>

\* the recorder's timeslice elapses (mediaRecorder.start(1000))
DataAvailable(r, size) ==
    /\ recState[r] = "recording"
    /\ readyState[recOwner[r]] = "OPEN" => \A s \in Sessions : fired[s] < MaxChunks
    /\ ondataavailable(recOwner[r], <<size>>)
    /\ UNCHANGED <<now, timerDue, react, refs, nStarted, media, net, assignedId, errored>>

stopRecording_NoStateCheck ==
    /\ IF mediaRecorderRef # 0
       THEN recState' = [recState EXCEPT ![mediaRecorderRef] = "stopping"]
       ELSE UNCHANGED recState
    /\ UNCHANGED <<now, timerDue, react, refs, nStarted, perm, tracks, recOwner, net, hist>>

\* stopRecording
stopRecording ==
    /\ IF mediaRecorderRef # 0 /\ recState[mediaRecorderRef] = "recording"
       THEN recState' = [recState EXCEPT ![mediaRecorderRef] = "stopping"]
       ELSE UNCHANGED recState
    /\ UNCHANGED <<now, timerDue, react, refs, nStarted, perm, tracks, recOwner, net, hist>>

\* the task queued by MediaRecorder.stop()
RecorderStopped(r, blobs) ==
    /\ recState[r] = "stopping"
    /\ StopTask(r, blobs)

\* a recorder whose stream has no live track left stops by itself
RecorderTracksEnded(r, blobs) ==
    /\ recState[r] = "recording"
    /\ tracks[recOwner[r]] = "ended"
    /\ StopTask(r, blobs)

resetSession_KeepsSessionId ==
    /\ recordingState' = "Idle"
    /\ statusMessage' = MsgIdle
    /\ analysisReport' = NoReport
    /\ realtimeFeedback' = <<>>
    /\ timerDue' = FeedbackEffect(realtimeFeedback')
    /\ UNCHANGED <<now, refs, nStarted, media, net, hist>>

\* resetSession
resetSession ==
    /\ recordingState' = "Idle"
    /\ statusMessage' = MsgIdle
    /\ analysisReport' = NoReport
    /\ realtimeFeedback' = <<>>
    /\ timerDue' = FeedbackEffect(realtimeFeedback')
    /\ sessionIdRef' = Null
    /\ UNCHANGED <<now, socketRef, mediaRecorderRef, nStarted, media, net, hist>>

\* ------------------------------------------------------------- the buttons
ClickStart == ShowsStart /\ nStarted < MaxSessions /\ startRecording
ClickStop == ShowsStop /\ stopRecording
ClickReset == ShowsReport /\ resetSession

Next ==
    \/ ClickStart
    \/ ClickStop
    \/ ClickReset
    \/ FeedbackTimer
    \/ \E s \in Sessions : PermissionGranted(s)
    \/ \E s \in Sessions : PermissionDenied(s)
    \/ \E s \in Sessions : SocketOpen(s)
    \/ \E s \in Sessions : \E m \in Inbound : SocketMessage(s, m)
    \/ \E s \in Sessions : CloseFrameReceived(s)
    \/ \E s \in Sessions : SocketClosed(s)
    \/ \E s \in Sessions : SocketError(s)
    \/ \E s \in Sessions : \E rep \in Bodies : FetchOk(s, rep)
    \/ \E s \in Sessions : FetchFailed(s)
    \/ \E r \in Recorders : \E size \in BlobSizes : DataAvailable(r, size)
    \/ \E r \in Recorders : \E blobs \in StopBlobs : RecorderStopped(r, blobs)
    \/ \E r \in Recorders : \E blobs \in StopBlobs : RecorderTracksEnded(r, blobs)

Spec == Init /\ [][Next]_vars

\* ------------------------------------------------------- the notice timer
\* One second passes.  A timeout never runs before it is due, but the
\* browser may run it late, so the clock can pass a pending due time.
Tick ==
    /\ now < MaxTime
    /\ now' = now + 1
    /\ UNCHANGED <<react, refs, nStarted, media, net, hist, timerDue>>

\* the timeout runs, at its due time or later
FeedbackTimerDue == (\E d \in timerDue : d <= now) /\ FeedbackTimer

\* a FILLER_WORD message is delivered on the socket of session s
NoticeArrives(s, ws) ==
    /\ readyState[s] = "OPEN"
    /\ Len(realtimeFeedback) < MaxTimedFeedback
    /\ addRealtimeFeedback(FeedbackText(ws))
    /\ UNCHANGED assignedId

\* The notices of the sessions the user starts, with the clock running.
NextTimed ==
    \/ Tick
    \/ FeedbackTimerDue
    \/ ClickStart
    \/ \E s \in Sessions : PermissionGranted(s)
    \/ \E s \in Sessions : SocketOpen(s)
    \/ \E s \in Sessions : \E ws \in WordLists : NoticeArrives(s, ws)

SpecTimed == Init /\ [][NextTimed]_vars


\* ------------------------------------------- the handlers called directly
\* The buttons call stopRecording only while Recording and resetSession only
\* from the report view.  SpecApi adds the two calls the buttons never make:
\* stopRecording when the recorder the ref holds is not recording (or there
\* is none), and resetSession while the state is Idle.
StopWhenStopped ==
    /\ ~(mediaRecorderRef # 0 /\ recState[mediaRecorderRef] = "recording")
    /\ stopRecording

ResetWhenIdle == recordingState = "Idle" /\ resetSession

NextApi ==
    \/ Next
    \/ StopWhenStopped
    \/ ResetWhenIdle

SpecApi == Init /\ [][NextApi]_vars


\* ------------------------------------------------------------- scheduling
\* The tasks already under way, which the browser is bound to run: a closing
\* handshake (begun by socket.close() or by the server's close frame) ends
\* with a close event, the browser giving up on a silent peer by itself; a
\* recorder that was stopped or lost its tracks runs its stop task; and a
\* pending notice timeout elapses.  Nothing else is required to happen: the
\* user need not answer the permission prompt or click, the server need not
\* answer, send or close, and a connection left open can stay open.
Fairness ==
    /\ \A s \in Sessions :
          WF_vars(readyState[s] = "CLOSING" /\ (SocketClosed(s) \/ SocketError(s)))
    /\ \A r \in Recorders : WF_vars(\E blobs \in StopBlobs : RecorderStopped(r, blobs))
    /\ \A r \in Recorders : WF_vars(\E blobs \in StopBlobs : RecorderTracksEnded(r, blobs))
    /\ WF_vars(FeedbackTimer)

SpecFair == Spec /\ Fairness


\* ----------------------------------------------------------------- claims
NonEmpty(v) == v # Null /\ v # ""
Live(s) == readyState[s] \in {"CONNECTING", "OPEN", "CLOSING"}
Running(r) == recState[r] = "recording"
RecordersOf(s) == {r \in Recorders : recOwner[r] = s}
\* the step is the user's reset (the only one that restores the first status)
IsReset == recordingState' = "Idle" /\ statusMessage' = MsgIdle

\* C1 as stated: a step enters Recording exactly when it handles a message
\* carrying a session_id field on an open connection, whatever the value of
\* that field, and a chunk is sent on a socket only after such a message was
\* handled on it.
C1_AnySessionIdField ==
    [][/\ \A s \in Sessions :
            assignedId'[s] # assignedId[s] => recordingState' = "Recording"
       /\ (recordingState' = "Recording" /\ recordingState # "Recording")
            => \E s \in Sessions : readyState[s] = "OPEN" /\ assignedId'[s] # Null
       /\ \A s \in Sessions : sent'[s] # sent[s] => assignedId[s] # Null]_vars

\* C1 amended: a step that handles a first or a different non-empty session id
\* leaves the state Recording; a step enters Recording only by handling a
\* non-empty session id on an open connection, which it stores; a chunk is
\* sent on a socket only after a non-empty session id was handled on it.  A
\* message whose session_id is empty is not an assignment.  (The state is
\* that of a mounted Home: one the report view has torn down has none to
\* change.)
C1_RecordingIffAssigned ==
    [][/\ \A s \in Sessions :
            (assignedId'[s] # assignedId[s] /\ NonEmpty(assignedId'[s]) /\ ~Unmounted)
                => recordingState' = "Recording"
       /\ \A s \in Sessions :
            (assignedId'[s] # assignedId[s] /\ ~NonEmpty(assignedId'[s]))
                => recordingState' = recordingState
       /\ (recordingState' = "Recording" /\ recordingState # "Recording")
            => \E s \in Sessions :
                   /\ readyState[s] = "OPEN"
                   /\ NonEmpty(assignedId'[s])
                   /\ sessionIdRef' = assignedId'[s]
       /\ \A s \in Sessions : sent'[s] # sent[s] => NonEmpty(assignedId[s])]_vars

C1_Witness ==
    \E s \in Sessions :
        /\ recordingState = "Recording"
        /\ NonEmpty(assignedId[s])
        /\ sessionIdRef = assignedId[s]
        /\ sent[s] > 0

\* C2: never more than one live connection, nor more than one running
\* recorder.
C2_AtMostOneSession ==
    /\ Cardinality({s \in Sessions : Live(s)}) <= 1
    /\ Cardinality({r \in Recorders : Running(r)}) <= 1

\* C3: once a non-empty session id was handled on a session's socket, a later
\* message carrying another one neither changes the stored id nor builds a
\* recorder.
C3_SessionIdSetOnce ==
    [][\A s \in Sessions :
          (NonEmpty(assignedId[s]) /\ assignedId'[s] # assignedId[s])
              => (sessionIdRef' = sessionIdRef /\ recOwner' = recOwner)]_vars

\* C4: the step that closes a connection on which no non-empty session id
\* was handled leaves the state Idle with the "could not get session ID"
\* status and starts no fetch.
C4_CloseBeforeAssignment ==
    [][\A s \in Sessions :
          (Live(s) /\ readyState'[s] = "CLOSED" /\ ~NonEmpty(assignedId[s]))
              => /\ recordingState' = "Idle"
                 /\ statusMessage' = MsgNoSession
                 /\ fetchState'[s] = "none"]_vars

\* C5: a session that was assigned a non-empty id and whose connection has
\* closed has started a fetch, and the fetch asks for the id assigned to it.
\* (Each socket fires a single close event, so a session starts at most one.)
C5_OneFetchForAssignedId ==
    \A s \in Sessions :
        (readyState[s] = "CLOSED" /\ NonEmpty(assignedId[s]))
            => (fetchState[s] # "none" /\ fetchId[s] = assignedId[s])

\* C6: while a fetch is in flight, the connection of the session whose id it
\* asks for is closed.
C6_FetchAfterClose ==
    \A s \in Sessions :
        fetchState[s] = "pending"
            => \A o \in Sessions : assignedId[o] = fetchId[s] => readyState[o] = "CLOSED"

\* C7: the step in which a connection fails leaves the state Idle with the
\* connection-error status and starts no fetch, and a session whose
\* connection failed never starts one.
C7_ErrorAborts ==
    [][\A s \in Sessions :
          /\ (errored'[s] /\ ~errored[s])
                => /\ recordingState' = "Idle"
                   /\ statusMessage' = MsgConnError
          /\ errored'[s] => fetchState'[s] = "none"]_vars

\* C8: when the controller is Idle or Complete, no session whose connection
\* has closed still holds a stream with live tracks.
C8_MicReleased ==
    recordingState \in {"Idle", "Complete"}
        => \A s \in Sessions : readyState[s] = "CLOSED" => tracks[s] # "live"

\* C9 as stated: per session, chunks sent = capture callbacks run while the
\* socket was OPEN.
C9_SentEqualsFired == \A s \in Sessions : sent[s] = fired[s]

\* C9 amended: per session, chunks sent = capture callbacks that carried data
\* and ran while the socket was OPEN; a callback run while the socket is not
\* OPEN, or with an empty blob, sends nothing then or later.
C9_SentEqualsFiredWithData == \A s \in Sessions : sent[s] = firedData[s]

C9_Witness ==
    \E s \in Sessions :
        /\ sent[s] > 0
        /\ fired[s] > firedData[s]
        /\ readyState[s] = "CLOSED"
        /\ \E r \in RecordersOf(s) : Running(r)

\* C10: from Complete, every step other than the user's reset leaves the
\* state Complete and the stored report as it is.
C10_CompleteIsTerminal ==
    [][(recordingState = "Complete" /\ ~IsReset)
          => (recordingState' = "Complete" /\ analysisReport' = analysisReport)]_vars

\* C11: a report fetch whose session was abandoned while it was in flight is
\* ignored when it completes.  A fetch begins only with a session id stored,
\* and only resetSession and startRecording unset the stored id, so a fetch
\* pending while no id is stored is one that a reset or a new start has
\* overtaken.  When it completes, with a report or with a failure, the
\* recording state, the status line and the stored report do not change.
C11_StaleFetchIgnored ==
    [][\A s \in Sessions :
          (fetchState[s] = "pending" /\ fetchState'[s] # "pending"
              /\ sessionIdRef = Null)
             => UNCHANGED <<recordingState, statusMessage, analysisReport>>]_vars

\* C12: when getUserMedia rejects for a startRecording call, the recording
\* state stays what it was (Idle stays Idle), the status line reports the
\* microphone failure (on the status line of a mounted Home), and that call
\* opens no connection, then or later.
C12_PermissionDenied ==
    /\ [](\A s \in Sessions : perm[s] = "denied" => readyState[s] = "none")
    /\ [][\A s \in Sessions :
             (perm[s] = "pending" /\ perm'[s] = "denied")
                => /\ recordingState' = recordingState
                   /\ ~Unmounted => statusMessage' = MsgNoMic
                   /\ UNCHANGED <<readyState, socketRef>>]_vars

C12_Witness ==
    \E s \in Sessions :
        /\ perm[s] = "denied"
        /\ readyState[s] = "none"
        /\ recordingState = "Idle"
        /\ statusMessage = MsgNoMic

\* C13: when a report fetch ends in failure (a non-ok response or a rejected
\* request), the recording state becomes Idle, the status line reports the
\* failure, and the failure stores nothing: the stored report is what it was,
\* so an empty one stays empty.  (State and status are those of a mounted
\* Home.)
C13_FetchFailure ==
    [][\A s \in Sessions :
          (fetchState[s] = "pending" /\ fetchState'[s] = "failed")
             => /\ ~Unmounted => recordingState' = "Idle"
                /\ ~Unmounted => statusMessage' = MsgFetchFailed
                /\ analysisReport' = analysisReport]_vars

C13_Witness ==
    \E s \in Sessions :
        /\ fetchState[s] = "failed"
        /\ recordingState = "Idle"
        /\ statusMessage = MsgFetchFailed
        /\ analysisReport = NoReport

\* C14 as stated: stopRecording on a session already stopped and
\* resetSession while Idle change nothing of the controller (recording
\* state, status line, report, session id, notices), and send no close.
C14_StopAndResetAreNoOps ==
    [][(StopWhenStopped \/ ResetWhenIdle)
          => UNCHANGED <<recordingState, statusMessage, analysisReport, sessionIdRef,
                         realtimeFeedback, readyState, recState>>]_vars

\* C14 amended: stopRecording on a session already stopped changes nothing
\* at all, so no second close is sent.  resetSession while Idle leaves the
\* state Idle and touches no connection, recorder or fetch, but it restores
\* the initial status line and empties the report, the session id and the
\* notices: it is a no-op only where those already are initial.
C14_StopNoOpResetRestores ==
    [][/\ StopWhenStopped => UNCHANGED vars
       /\ ResetWhenIdle
             => /\ recordingState' = "Idle"
                /\ statusMessage' = MsgIdle
                /\ analysisReport' = NoReport
                /\ sessionIdRef' = Null
                /\ realtimeFeedback' = <<>>
                /\ UNCHANGED <<socketRef, mediaRecorderRef, nStarted, media, net, hist>>
                /\ (statusMessage = MsgIdle /\ analysisReport = NoReport
                       /\ sessionIdRef = Null /\ realtimeFeedback = <<>>)
                      => UNCHANGED vars]_vars

\* one session, stopped, whose fetch failed: only a reset in Idle restores
\* the initial status line
C14_Witness ==
    /\ nStarted = 1
    /\ fetchState[1] = "failed"
    /\ \E r \in Recorders : recOwner[r] = 1 /\ recState[r] = "inactive"
    /\ recordingState = "Idle"
    /\ statusMessage = MsgIdle

\* a pending timeout that the browser has not run by its due time
Overdue == \E d \in timerDue : d < now

\* C15: every notice is shown for FeedbackDelay seconds and then removed,
\* whatever other notices arrive or expire meanwhile: no notice is still in
\* the queue later than FeedbackDelay after it was enqueued, and when the
\* timeout removes a notice it removes the oldest one, exactly FeedbackDelay
\* after that one was enqueued.  (A start of a session, which empties the
\* queue, is not a removal by the timeout; and while a timeout is overdue,
\* the delay is the browser's and is not held against the claim.)
C15_NoticeLivesFiveSeconds ==
    /\ [](\A i \in DOMAIN realtimeFeedback :
              now <= realtimeFeedback[i].id + FeedbackDelay \/ Overdue)
    /\ [][(Len(realtimeFeedback') < Len(realtimeFeedback) /\ nStarted' = nStarted)
             => /\ realtimeFeedback' = Tail(realtimeFeedback)
                /\ now = Head(realtimeFeedback).id + FeedbackDelay \/ Overdue]_vars

\* C16: a step that appends a notice to the queue (a FILLER_WORD message)
\* and a step in which the notice timeout removes one leave the recording
\* state, the status line, the session id and the stored report unchanged.
C16_NoticesOnlyTouchQueue ==
    [][(Len(realtimeFeedback') = Len(realtimeFeedback) + 1 \/ FeedbackTimer)
          => UNCHANGED <<recordingState, statusMessage, sessionIdRef,
                         analysisReport>>]_vars

\* a notice received while recording
C16_Witness ==
    /\ realtimeFeedback # <<>>
    /\ recordingState = "Recording"
    /\ statusMessage = MsgRecording
    /\ NonEmpty(sessionIdRef)

\* the payloads the handler has no branch for, or throws on
IgnoredMessage(m) ==
    \/ ~m.parses
    \/ ~NonEmpty(m.session_id) /\ ~(m.type = "FILLER_WORD" /\ m.wordsIsArray)

IgnoredMessages == {m \in Inbound : IgnoredMessage(m)}

\* C17: a message that is neither a session assignment nor a FILLER_WORD
\* notice (text that does not parse, an object with neither a non-empty
\* session_id nor the type FILLER_WORD, or a FILLER_WORD object whose words
\* is no array) changes nothing of the controller, its refs, its
\* recorders, its connections or its fetches; the socket it arrived on stays
\* as it was, so later messages on it are handled as before.
C17_UnknownMessageIgnored ==
    [][\A s \in Sessions : \A m \in IgnoredMessages :
          SocketMessage(s, m)
             => UNCHANGED <<react, refs, nStarted, media, net, timing>>]_vars

\* right after an ignored message on a connection just opened
C17_Witness ==
    \E s \in Sessions :
        /\ assignedId[s] = ""
        /\ readyState[s] = "OPEN"
        /\ recordingState = "Idle"
        /\ statusMessage = MsgConnected
        /\ sessionIdRef = Null

\* The session ran the happy path up to its report fetch: it was assigned an
\* id, streamed at least one chunk, its recorders have stopped, its
\* connection closed without an error, and its fetch asks for its own id.
HappyPath(s) ==
    /\ NonEmpty(assignedId[s])
    /\ sent[s] > 0
    /\ RecordersOf(s) # {}
    /\ \A r \in RecordersOf(s) : recState[r] = "inactive"
    /\ readyState[s] = "CLOSED"
    /\ ~errored[s]
    /\ fetchId[s] = assignedId[s]

\* nothing of session s is still under way
Quiet(s) ==
    /\ perm[s] # "pending"
    /\ ~Live(s)
    /\ fetchState[s] # "pending"
    /\ \A r \in RecordersOf(s) : recState[r] = "inactive"

\* C18: when the report fetch of a session that ran the happy path returns
\* a report of the service to a mounted Home, the state becomes Complete,
\* the status line says so, the stored report is the one returned, and Home
\* lives on to hold them; and once nothing of any session is under way,
\* Complete and the report stay until the user resets.
C18_HappyPath ==
    [][/\ \A s \in Sessions : \A report \in Reports :
             (HappyPath(s) /\ FetchOk(s, report) /\ ~Unmounted)
                => /\ recordingState' = "Complete"
                   /\ statusMessage' = MsgComplete
                   /\ analysisReport' = report
                   /\ ~Unmounted'
       /\ (recordingState = "Complete" /\ (\A s \in Sessions : Quiet(s)) /\ ~IsReset)
             => (recordingState' = "Complete" /\ analysisReport' = analysisReport)]_vars

\* C19: every change of the recording state is a step of the lifecycle
\* Idle, Recording, Stopped, Analyzing, Complete taken in order, or an error
\* step from Recording, Stopped or Analyzing to Idle, or the reset from
\* Complete to Idle.
LifecycleSteps ==
    {<<"Idle", "Recording">>, <<"Recording", "Stopped">>,
     <<"Stopped", "Analyzing">>, <<"Analyzing", "Complete">>,
     <<"Recording", "Idle">>, <<"Stopped", "Idle">>, <<"Analyzing", "Idle">>,
     <<"Complete", "Idle">>}

C19_LifecycleOrder ==
    [][recordingState' # recordingState
          => <<recordingState, recordingState'>> \in LifecycleSteps]_vars

\* C20: the reset from Complete (the step from Complete that restores the
\* first status line) leaves the state Idle with no report stored, no
\* session id stored and no notice queued.
C20_ResetFromComplete ==
    [][(recordingState = "Complete" /\ IsReset)
          => /\ analysisReport' = NoReport
             /\ sessionIdRef' = Null
             /\ realtimeFeedback' = <<>>]_vars

\* after a session completed and was reset
C20_Witness ==
    /\ \E s \in Sessions : fetchState[s] = "ok" /\ NonEmpty(assignedId[s])
    /\ recordingState = "Idle"
    /\ statusMessage = MsgIdle
    /\ analysisReport = NoReport
    /\ sessionIdRef = Null
    /\ realtimeFeedback = <<>>

\* C21: assuming that every connection eventually closes and every fetch
\* eventually completes, the controller never rests forever in Stopped or
\* Analyzing: whenever the recording state is Stopped or Analyzing, it later
\* is Complete or Idle, whatever the order in which the recorder's stop
\* task, the socket's close event and the fetch completion are delivered.
C21_NeverStuck ==
    (/\ \A s \in Sessions : Live(s) ~> ~Live(s)
     /\ \A s \in Sessions : (fetchState[s] = "pending") ~> (fetchState[s] # "pending"))
        => ((recordingState \in {"Stopped", "Analyzing"})
               ~> (recordingState \in {"Complete", "Idle"}))

\* C22: whenever the state is Complete a report is stored, and it is one
\* that a completed fetch returned to the session the fetch was made for;
\* and whenever, after a start, the state is Idle, Recording or Stopped, no
\* report of an earlier session is stored: the stored report is empty or
\* was returned to the session started last.
C22_ReportMatchesState ==
    /\ recordingState = "Complete"
          => /\ analysisReport \in Reports
             /\ \E s \in Sessions : fetchState[s] = "ok" /\ fetchId[s] = assignedId[s]
    /\ (nStarted > 0 /\ recordingState \in {"Idle", "Recording", "Stopped"})
          => \/ analysisReport = NoReport
             \/ analysisReport \in Reports /\ fetchState[nStarted] = "ok"

====
